---- MODULE Spec2Model ----
(***************************************************************************)
(* A model of cli-validator's command-metadata validator:                  *)
(*   src/src/cli_validator/cmd_meta/loader/__init__.py  (cache, fetch,     *)
(*                                                       command tree)     *)
(*   src/src/cli_validator/cmd_meta/validator.py        (validate_command) *)
(*   src/src/cli_validator/exceptions.py                (error kinds)      *)
(*                                                                         *)
(* A Python str is a sequence of atoms (an atom is one or more characters  *)
(* that the model never looks inside); " " is the blank.  A Python dict    *)
(* (a JSON object) is a sequence of entries [k |-> key, v |-> value] in    *)
(* insertion order with distinct keys.                                     *)
(***************************************************************************)
EXTENDS Integers, Sequences, FiniteSets, TLC

VARIABLES
    metas,          \* CommandMetaValidator.metas / the argument of build_command_tree
    command_tree,   \* CommandMetaValidator.command_tree (result of build_command_tree)
    global_parser,  \* CommandMetaValidator._global_parser
    calls,          \* the validate_command calls in progress: call id -> frame (locals, position)
    lookup,         \* the last load_command_meta call made on its own: arguments and result
    disk,           \* the cache directory: version -> {meta_dir}/azure-cli-{version}
    remote,         \* the blob container: version -> azure-cli-{version}/
    aiohttp,        \* whether importlib finds the module aiohttp
    cleared,        \* the versions cleared and not loaded since
    last            \* the last loader operation: what it did and what it returned

validatorVars == <<metas, command_tree, global_parser, calls, lookup>>

loaderVars == <<disk, remote, aiohttp, cleared, last>>

vars == <<metas, command_tree, global_parser, calls, lookup, disk, remote, aiohttp, cleared, last>>

---------------------------------------------------------------------------
(* Bounds *)

\* longest command path (number of tokens) in the generated metadata
MaxDepth == 3

\* most parameters in the CommandSpec of the validated command
MaxParams == 2

---------------------------------------------------------------------------
(* Strings and dicts *)

SP == " "

None == [none |-> TRUE]

Last(s) == s[Len(s)]

\* sep.join(parts): parts is a sequence of strings
RECURSIVE str_join(_, _)
str_join(sep, parts) ==
    IF parts = <<>> THEN <<>>
    ELSE IF Len(parts) = 1 THEN parts[1]
    ELSE parts[1] \o sep \o str_join(sep, Tail(parts))

\* str.split(): the maximal runs of non-blank atoms
RECURSIVE str_split_from(_, _, _)
str_split_from(s, i, cur) ==
    IF i > Len(s) THEN (IF cur = <<>> THEN <<>> ELSE <<cur>>)
    ELSE IF s[i] = SP
         THEN (IF cur = <<>> THEN <<>> ELSE <<cur>>) \o str_split_from(s, i + 1, <<>>)
         ELSE str_split_from(s, i + 1, Append(cur, s[i]))

str_split(s) == str_split_from(s, 1, <<>>)

\* key in d
dict_has(d, key) == \E i \in 1..Len(d) : d[i].k = key

\* d[key], for a key that dict_has
dict_get(d, key) == d[CHOOSE i \in 1..Len(d) : d[i].k = key].v

---------------------------------------------------------------------------
(* Exceptions (exceptions.py, and the built-in ones the code lets escape) *)

NoError == "none"
KeyError == "KeyError"
TypeError == "TypeError"
UnknownTypeException == "UnknownTypeException"
ValidateFailureException == "ValidateFailureException"
ParserFailureException == "ParserFailureException"
ParserHelpException == "ParserHelpException"
EmptyCommandException == "EmptyCommandException"
NonAzCommandException == "NonAzCommandException"
UnknownCommandException == "UnknownCommandException"

---------------------------------------------------------------------------
(* The command tree: a node is a str (the owning module) or a dict from    *)
(* token to node.                                                          *)

TreeLeaf(module) == [leaf |-> TRUE, owner |-> module, kids |-> <<>>]

TreeDict(kids) == [leaf |-> FALSE, owner |-> "", kids |-> kids]

EmptyTree == TreeDict(<<>>)

\* tree_node[name] = value, on a dict node
TreeSet(tree_node, name, value) ==
    TreeDict([n \in (DOMAIN tree_node.kids) \cup {name} |->
                 IF n = name THEN value ELSE tree_node.kids[n]])

Raised(kind) == [raised |-> kind, node |-> EmptyTree]

Built(node) == [raised |-> NoError, node |-> node]

\* for name, command in sub_group["commands"].items():
\*     tree_node[name.split()[-1]] = module
\* (item assignment on a str raises TypeError)
RECURSIVE attach_commands(_, _, _, _)
attach_commands(commands, i, tree_node, module) ==
    IF i > Len(commands) THEN Built(tree_node)
    ELSE IF tree_node.leaf THEN Raised(TypeError)
    ELSE attach_commands(commands, i + 1,
             TreeSet(tree_node, Last(str_split(commands[i].k)), TreeLeaf(module)),
             module)

RECURSIVE attach_sub_group_to_node(_, _, _)
RECURSIVE attach_sub_groups(_, _, _, _)

\* attach_sub_groups without `if name not in tree_node`: a fresh dict for
\* every sub-group, whatever the node already holds
attach_sub_groups_fresh(sub_groups, i, tree_node, module) ==
    IF i > Len(sub_groups) THEN Built(tree_node)
    ELSE IF tree_node.leaf THEN Raised(TypeError)
    ELSE LET name == Last(str_split(sub_groups[i].k))
             sub == attach_sub_group_to_node(sub_groups[i].v, EmptyTree, module)
         IN  IF sub.raised # NoError THEN sub
             ELSE attach_sub_groups(sub_groups, i + 1,
                                    TreeSet(tree_node, name, sub.node), module)

\* for name, sub_group in sub_group["sub_groups"].items():
\*     name = name.split()[-1]
\*     if name not in tree_node: tree_node[name] = {}
\*     next_tree_node = tree_node[name]
\*     _attach_sub_group_to_node(sub_group, next_tree_node, module)
\* On a str node, `name not in tree_node` is a substring test, and either
\* the item assignment or the indexing by a str that follows raises TypeError.
attach_sub_groups(sub_groups, i, tree_node, module) ==
    IF i > Len(sub_groups) THEN Built(tree_node)
    ELSE IF tree_node.leaf THEN Raised(TypeError)
    ELSE LET name == Last(str_split(sub_groups[i].k))
             node1 == IF name \notin DOMAIN tree_node.kids
                      THEN TreeSet(tree_node, name, EmptyTree)
                      ELSE tree_node
             sub == attach_sub_group_to_node(sub_groups[i].v, node1.kids[name], module)
         IN  IF sub.raised # NoError THEN sub
             ELSE attach_sub_groups(sub_groups, i + 1,
                                    TreeSet(node1, name, sub.node), module)

attach_sub_group_to_node(sub_group, tree_node, module) ==
    LET r == attach_commands(sub_group.commands, 1, tree_node, module)
    IN  IF r.raised # NoError THEN r
        ELSE attach_sub_groups(sub_group.sub_groups, 1, r.node, module)

\* for meta in metas.values(): ...
RECURSIVE build_from(_, _, _)
build_from(ms, i, tree) ==
    IF i > Len(ms) THEN Built(tree)
    ELSE LET meta == ms[i].v
             r == attach_sub_group_to_node(meta, tree, meta.module_name)
         IN  IF r.raised # NoError THEN r ELSE build_from(ms, i + 1, r.node)

build_command_tree(ms) == build_from(ms, 1, EmptyTree)

---------------------------------------------------------------------------
(* CommandMetaValidator.load_command_meta *)

FileName(module) == <<"az_", module, "_meta.json">>

SubSeq1(s, n) == SubSeq(s, 1, n)

\* for idx in range(len(signature) - 1):
\*     meta = meta['sub_groups'][' '.join(signature[:idx + 1])]
RECURSIVE descend(_, _, _)
descend(meta, signature, idx) ==
    IF idx >= Len(signature) - 1 THEN [raised |-> NoError, meta |-> meta]
    ELSE LET key == str_join(<<SP>>, SubSeq1(signature, idx + 1))
         IN  IF ~dict_has(meta.sub_groups, key)
             THEN [raised |-> KeyError, meta |-> meta]
             ELSE descend(dict_get(meta.sub_groups, key), signature, idx + 1)

\* load_command_meta reading commands[signature[-1]] instead of the joined path
load_command_meta_last_token(ms, signature, module) ==
    IF ~dict_has(ms, FileName(module))
    THEN [raised |-> KeyError, meta |-> None]
    ELSE LET d == descend(dict_get(ms, FileName(module)), signature, 0)
             key == Last(signature)
         IN  IF d.raised # NoError THEN [raised |-> d.raised, meta |-> None]
             ELSE IF ~dict_has(d.meta.commands, key)
                  THEN [raised |-> KeyError, meta |-> None]
                  ELSE [raised |-> NoError, meta |-> dict_get(d.meta.commands, key)]

load_command_meta(ms, signature, module) ==
    IF ~dict_has(ms, FileName(module))
    THEN [raised |-> KeyError, meta |-> None]
    ELSE LET d == descend(dict_get(ms, FileName(module)), signature, 0)
             key == str_join(<<SP>>, signature)
         IN  IF d.raised # NoError THEN [raised |-> d.raised, meta |-> None]
             ELSE IF ~dict_has(d.meta.commands, key)
                  THEN [raised |-> KeyError, meta |-> None]
                  ELSE [raised |-> NoError, meta |-> dict_get(d.meta.commands, key)]

---------------------------------------------------------------------------
(* The metadata cache (loader/__init__.py).  A directory azure-cli-{version}*)
(* holds index.txt (one file name per line) and the files; a file is       *)
(* absent, bytes that are not UTF-8 text, text that is not JSON (the empty *)
(* file a failed download leaves is), or a JSON document.                  *)

ResourceNotExistException == "ResourceNotExistException"
FileNotFoundError == "FileNotFoundError"
JSONDecodeError == "JSONDecodeError"
UnicodeDecodeError == "UnicodeDecodeError"

Versions == {"2.50.0", "2.51.0"}

\* clear(None)
NoVersion == ""

Files == {FileName("ma"), FileName("mb")}

NoFile == [state |-> "absent", doc |-> None]

InvalidFile == [state |-> "invalid", doc |-> None]

UndecodableFile == [state |-> "undecodable", doc |-> None]

JsonFile(file_name) == [state |-> "json", doc |-> [module_name |-> file_name[2]]]

NoDir ==
    [exists |-> FALSE, has_index |-> FALSE, index |-> <<>>,
     files |-> [f \in Files |-> NoFile]]

\* d[key] = value
dict_set(d, key, value) ==
    IF dict_has(d, key)
    THEN [i \in 1..Len(d) |-> IF d[i].k = key THEN [k |-> key, v |-> value] ELSE d[i]]
    ELSE Append(d, [k |-> key, v |-> value])

Logged(acc, file_name, error) ==
    [acc EXCEPT !.log = Append(@, [file |-> file_name, error |-> error])]

\* for file_name in f.readlines():
\*     try: metas[file_name] = json.load(open(..., encoding='utf-8'))
\*     except (FileNotFoundError, JSONDecodeError) as e: logger.error(...)
\* reading bytes that are not UTF-8 raises UnicodeDecodeError, which the
\* except clause does not name
RECURSIVE load_files(_, _, _)
load_files(dir, i, acc) ==
    IF i > Len(dir.index) THEN acc
    ELSE LET file_name == dir.index[i]
             file == dir.files[file_name]
         IN  IF file.state = "absent"
             THEN load_files(dir, i + 1, Logged(acc, file_name, FileNotFoundError))
             ELSE IF file.state = "invalid"
             THEN load_files(dir, i + 1, Logged(acc, file_name, JSONDecodeError))
             ELSE IF file.state = "undecodable"
             THEN [acc EXCEPT !.raised = UnicodeDecodeError]
             ELSE load_files(dir, i + 1,
                      [acc EXCEPT !.metas = dict_set(@, file_name, file.doc)])

\* what a call of load_metas_from_disk gives: the exception it raises, or
\* None, or a dict; and the log lines written on the way
LoadResult(raised, is_none, loaded, log) ==
    [raised |-> raised, is_none |-> is_none, metas |-> loaded, log |-> log]

load_metas_from_disk(dir) ==
    IF ~dir.has_index THEN LoadResult(NoError, TRUE, <<>>, <<>>)
    ELSE LET r == load_files(dir, 1, [raised |-> NoError, metas |-> <<>>, log |-> <<>>])
         IN  IF r.raised # NoError
             THEN LoadResult(r.raised, FALSE, <<>>, r.log)
             ELSE LoadResult(NoError, FALSE, r.metas, r.log)

\* download_blob(url, target_path): open(target_path, "wb") truncates the
\* target before the download; a blob that is not there raises
\* ResourceNotExistException and leaves the empty file behind
download_blob(dir, blob, file_name) ==
    [raised |-> IF blob.state = "absent" THEN ResourceNotExistException ELSE NoError,
     dir |-> [dir EXCEPT !.files[file_name] =
                 IF blob.state = "absent" THEN InvalidFile ELSE blob]]

\* for file_name in f.readlines():
\*     try: download_blob(...)
\*     except ResourceNotExistException as e: logger.error(...)
RECURSIVE fetch_files(_, _, _, _)
fetch_files(dir, rdir, i, log) ==
    IF i > Len(dir.index) THEN [raised |-> NoError, dir |-> dir, log |-> log]
    ELSE LET file_name == dir.index[i]
             r == download_blob(dir, rdir.files[file_name], file_name)
         IN  fetch_files(r.dir, rdir, i + 1,
                 IF r.raised # NoError
                 THEN Append(log, [file |-> file_name, error |-> r.raised])
                 ELSE log)

fetch_metas(dir, rdir) ==
    LET made == [dir EXCEPT !.exists = TRUE]
        opened == [made EXCEPT !.has_index = TRUE, !.index = <<>>]
    IN  IF ~rdir.exists
        THEN [raised |-> ResourceNotExistException, dir |-> opened, log |-> <<>>]
        ELSE fetch_files([opened EXCEPT !.index = rdir.index], rdir, 1, <<>>)

\* loader/aio.py fetch_metas: the same files fetched in parallel
aio_fetch_metas(dir, rdir) == fetch_metas(dir, rdir)

\* no disk load made
NoResult == LoadResult(NoError, TRUE, <<>>, <<>>)

\* `not metas`
Falsy(r) == r.is_none \/ r.metas = <<>>

LoadMetasResult(ops, raised, first, result, fetched) ==
    [ops |-> ops, raised |-> raised, first |-> first, result |-> result,
     dir |-> fetched.dir, fetch_raised |-> fetched.raised, fetch_log |-> fetched.log]

\* load_metas returning what it loaded first instead of loading again
load_metas_stale(dir, rdir, aio) ==
    LET first == load_metas_from_disk(dir)
        fetched == IF aio THEN aio_fetch_metas(dir, rdir) ELSE fetch_metas(dir, rdir)
        none == [raised |-> NoError, dir |-> dir, log |-> <<>>]
    IN  IF first.raised # NoError
        THEN LoadMetasResult(<<"disk">>, first.raised, first, first, none)
        ELSE IF ~Falsy(first)
        THEN LoadMetasResult(<<"disk">>, NoError, first, first, none)
        ELSE IF fetched.raised # NoError
        THEN LoadMetasResult(<<"disk", "fetch">>, fetched.raised, first, NoResult, fetched)
        ELSE LoadMetasResult(<<"disk", "fetch">>, NoError, first, first, fetched)

\* metas = load_metas_from_disk(version, meta_dir)
\* if not metas:
\*     asyncio.run(aio_fetch_metas(...)) or fetch_metas(...)
\*     metas = load_metas_from_disk(version, meta_dir)
\* return metas
load_metas(dir, rdir, aio) ==
    LET first == load_metas_from_disk(dir)
        fetched == IF aio THEN aio_fetch_metas(dir, rdir) ELSE fetch_metas(dir, rdir)
        second == load_metas_from_disk(fetched.dir)
        none == [raised |-> NoError, dir |-> dir, log |-> <<>>]
    IN  IF first.raised # NoError
        THEN LoadMetasResult(<<"disk">>, first.raised, first, first, none)
        ELSE IF ~Falsy(first)
        THEN LoadMetasResult(<<"disk">>, NoError, first, first, none)
        ELSE IF fetched.raised # NoError
        THEN LoadMetasResult(<<"disk", "fetch">>, fetched.raised, first, NoResult, fetched)
        ELSE LoadMetasResult(<<"disk", "fetch", "disk">>, second.raised, first, second,
                             fetched)

NoOp ==
    [op |-> "none", version |-> NoVersion, after_clear |-> FALSE, ops |-> <<>>,
     raised |-> NoError, first |-> NoResult, result |-> NoResult,
     fetched_by |-> "", fetch_raised |-> NoError, fetch_log |-> <<>>]

\* before build_command_tree, and before any lookup
NotBuilt == [raised |-> "unbuilt", node |-> EmptyTree]

NoLookup == [signature |-> <<>>, module |-> "", raised |-> "uncalled", meta |-> None]

\* the loader at rest, in the specifications that do not use it
LoaderIdle ==
    /\ disk = [v \in Versions |-> NoDir]
    /\ remote = [v \in Versions |-> NoDir]
    /\ aiohttp = FALSE
    /\ cleared = {}
    /\ last = NoOp

\* a directory whose index lists both files
FullDir(files) ==
    [exists |-> TRUE, has_index |-> TRUE, index |-> <<FileName("ma"), FileName("mb")>>,
     files |-> files]

FileStates(file_name) == {NoFile, InvalidFile, UndecodableFile, JsonFile(file_name)}

\* the cache as found: no directory, an empty index, or both files listed
\* and each in one of its states
CachedDirs ==
    {NoDir, [NoDir EXCEPT !.exists = TRUE, !.has_index = TRUE]}
    \cup {FullDir(fs) : fs \in {g \in [Files -> UNION {FileStates(f) : f \in Files}] :
                                   \A f \in Files : g[f] \in FileStates(f)}}

\* the container: the version is not there, or its index lists both files
\* and each blob is there, as JSON or as other bytes, or not
RemoteDirs ==
    {NoDir}
    \cup {FullDir(fs) : fs \in {g \in [Files -> UNION {FileStates(f) : f \in Files}] :
                                   \A f \in Files :
                                       g[f] \in {NoFile, UndecodableFile, JsonFile(f)}}}

InitLoader ==
    /\ disk \in {d \in [Versions -> CachedDirs] : d["2.51.0"] = NoDir}
    /\ remote \in {r \in [Versions -> RemoteDirs] :
                      r["2.51.0"] \in {NoDir, FullDir([f \in Files |-> JsonFile(f)])}}
    /\ aiohttp \in BOOLEAN
    /\ cleared = {}
    /\ last = NoOp
    /\ metas = <<>>
    /\ command_tree = NotBuilt
    /\ global_parser = None
    /\ calls = <<>>
    /\ lookup = NoLookup

\* load_metas(version, meta_dir)
LoadMetas(version) ==
    LET r == load_metas(disk[version], remote[version], aiohttp)
        fetched == Len(r.ops) > 1
    IN  /\ disk' = [disk EXCEPT ![version] = r.dir]
        /\ last' = [op |-> "load_metas", version |-> version,
                    after_clear |-> version \in cleared, ops |-> r.ops,
                    raised |-> r.raised, first |-> r.first, result |-> r.result,
                    fetched_by |-> IF ~fetched THEN ""
                                   ELSE IF aiohttp THEN "aio.fetch_metas"
                                   ELSE "fetch_metas",
                    fetch_raised |-> r.fetch_raised, fetch_log |-> r.fetch_log]
        /\ cleared' = cleared \ {version}
        /\ UNCHANGED <<remote, aiohttp>>
        /\ UNCHANGED validatorVars

\* clear(version, meta_dir): one version's directory, or with None all of them
Clear(version) ==
    /\ disk' = IF version # NoVersion
               THEN [disk EXCEPT ![version] = NoDir]
               ELSE [v \in Versions |-> NoDir]
    /\ cleared' = IF version # NoVersion THEN cleared \cup {version} ELSE Versions
    /\ last' = [NoOp EXCEPT !.op = "clear", !.version = version]
    /\ UNCHANGED <<remote, aiohttp>>
    /\ UNCHANGED validatorVars

NextLoader ==
    \/ \E version \in Versions : LoadMetas(version)
    \/ \E version \in Versions \cup {NoVersion} : Clear(version)

SpecLoader == InitLoader /\ [][NextLoader]_vars

---------------------------------------------------------------------------
(* Metadata sets the tree and the lookup are exercised on.  A module       *)
(* document is generated from the command paths and the (otherwise empty)  *)
(* sub-group paths it declares; its dict keys are written in one of two    *)
(* styles, and it is stored under one of two file-name styles.             *)

TokA == <<"a">>
TokB == <<"b">>
TokenSeq == <<TokA, TokB>>
Tokens == {TokA, TokB}
ModuleNames == {"ma", "mb"}
ModuleSeq == <<"ma", "mb">>

\* token paths of 1..MaxDepth tokens; beyond the second level only TokA
CommandPaths ==
    UNION {{p \in [1..n -> Tokens] : \A i \in 3..n : p[i] = TokA} : n \in 1..MaxDepth}

IsPrefix(p, q) == Len(p) <= Len(q) /\ SubSeq1(q, Len(p)) = p

Items == [m : ModuleNames, kind : {"cmd", "grp"}, path : CommandPaths]

\* at most two declarations in the whole metadata set
Shapes == {{}} \cup {{x, y} : x, y \in Items}

\* "full": the space-joined token path from the module root (the upstream
\* contract); "short": the last token only
KeyOf(style, path) ==
    IF style = "full" THEN str_join(<<SP>>, path) ELSE Last(path)

CmdSpecOf(m, path) ==
    [parameters |-> <<[name |-> <<m>> \o str_join(<<"_">>, path),
                      options |-> << <<"--x">> >>]>>]

RECURSIVE MakeGroup(_, _, _, _)
MakeGroup(shape, m, prefix, style) ==
    LET isCmd(t) == [m |-> m, kind |-> "cmd", path |-> Append(prefix, t)] \in shape
        isGrp(t) == \E x \in shape :
                        /\ x.m = m
                        /\ IsPrefix(Append(prefix, t), x.path)
                        /\ (x.kind = "grp" \/ Len(x.path) > Len(prefix) + 1)
        cmdToks == SelectSeq(TokenSeq, isCmd)
        grpToks == SelectSeq(TokenSeq, isGrp)
    IN  [commands |-> [i \in 1..Len(cmdToks) |->
                          [k |-> KeyOf(style, Append(prefix, cmdToks[i])),
                           v |-> CmdSpecOf(m, Append(prefix, cmdToks[i]))]],
         sub_groups |-> [i \in 1..Len(grpToks) |->
                          [k |-> KeyOf(style, Append(prefix, grpToks[i])),
                           v |-> MakeGroup(shape, m, Append(prefix, grpToks[i]), style)]]]

MakeDoc(shape, m, style) ==
    LET g == MakeGroup(shape, m, <<>>, style)
    IN  [module_name |-> m, commands |-> g.commands, sub_groups |-> g.sub_groups]

\* "match": az_<module_name>_meta.json, the name load_command_meta asks for
StoredAs(fstyle, m) ==
    IF fstyle = "match" THEN FileName(m) ELSE <<"az_", m, "_ext_meta.json">>

MakeMetas(shape, style, fstyle) ==
    [i \in 1..Len(ModuleSeq) |->
        [k |-> StoredAs(fstyle, ModuleSeq[i]), v |-> MakeDoc(shape, ModuleSeq[i], style)]]

Variants == {<<"full", "match">>, <<"short", "match">>, <<"full", "other">>}

MetaSets == {MakeMetas(shape, v[1], v[2]) : shape \in Shapes, v \in Variants}

---------------------------------------------------------------------------
(* The tree specification: build the tree from a metadata set, then look   *)
(* up the commands the tree resolves.                                      *)

\* the (path, owner) pairs of the leaves below a node
RECURSIVE TreeLeaves(_, _)
TreeLeaves(node, prefix) ==
    IF node.leaf THEN {<<prefix, node.owner>>}
    ELSE UNION {TreeLeaves(node.kids[n], Append(prefix, n)) : n \in DOMAIN node.kids}

InitTree ==
    /\ metas \in MetaSets
    /\ command_tree = NotBuilt
    /\ lookup = NoLookup
    /\ global_parser = None
    /\ calls = <<>>
    /\ LoaderIdle

\* self.command_tree = build_command_tree(self.metas)
BuildCommandTree ==
    /\ command_tree = NotBuilt
    /\ command_tree' = build_command_tree(metas)
    /\ UNCHANGED <<metas, lookup, global_parser, calls>>
    /\ UNCHANGED loaderVars

\* meta = self.load_command_meta(cmd.signature, cmd.module), for a command
\* (signature, module) that the tree resolves
LoadCommandMeta ==
    /\ command_tree.raised = NoError
    /\ \E l \in TreeLeaves(command_tree.node, <<>>) :
          LET r == load_command_meta(metas, l[1], l[2])
          IN  lookup' = [signature |-> l[1], module |-> l[2],
                         raised |-> r.raised, meta |-> r.meta]
    /\ UNCHANGED <<metas, command_tree, global_parser, calls>>
    /\ UNCHANGED loaderVars

NextTree == BuildCommandTree \/ LoadCommandMeta

SpecTree == InitTree /\ [][NextTree]_vars

---------------------------------------------------------------------------
(* What a metadata set declares, read off the documents themselves *)

\* the commands below a (sub-)group: the token path the nesting gives each
\* (one token per level, the last token of the level's key) and its CommandSpec
RECURSIVE DeclaredIn(_, _)
DeclaredIn(group, prefix) ==
    {[path |-> Append(prefix, Last(str_split(group.commands[i].k))),
      spec |-> group.commands[i].v] : i \in 1..Len(group.commands)}
    \cup UNION {DeclaredIn(group.sub_groups[i].v,
                           Append(prefix, Last(str_split(group.sub_groups[i].k))))
                : i \in 1..Len(group.sub_groups)}

RECURSIVE GroupPathsIn(_, _)
GroupPathsIn(group, prefix) ==
    UNION {LET q == Append(prefix, Last(str_split(group.sub_groups[i].k)))
           IN  {q} \cup GroupPathsIn(group.sub_groups[i].v, q)
           : i \in 1..Len(group.sub_groups)}

CommandPathsOf(doc) == {d.path : d \in DeclaredIn(doc, <<>>)}

\* every key equals the space-joined token path from the module root
RECURSIVE KeysValidIn(_, _)
KeysValidIn(group, prefix) ==
    /\ \A i \in 1..Len(group.commands) :
          LET key == group.commands[i].k
          IN  key = str_join(<<SP>>, Append(prefix, Last(str_split(key))))
    /\ \A i \in 1..Len(group.sub_groups) :
          LET key == group.sub_groups[i].k
              q == Append(prefix, Last(str_split(key)))
          IN  key = str_join(<<SP>>, q) /\ KeysValidIn(group.sub_groups[i].v, q)

\* command paths disjoint across modules
DisjointAcrossModules(ms) ==
    \A i, j \in 1..Len(ms) :
        i # j => CommandPathsOf(ms[i].v) \cap CommandPathsOf(ms[j].v) = {}

\* a valid metadata set, as claims C4 and C8 use the word
ValidMetas(ms) ==
    /\ DisjointAcrossModules(ms)
    /\ \A i \in 1..Len(ms) : KeysValidIn(ms[i].v, <<>>)

\* no token path is declared both as a command and as a sub-group
NoCommandGroupClash(ms) ==
    \A i, j \in 1..Len(ms) :
        CommandPathsOf(ms[i].v) \cap GroupPathsIn(ms[j].v, <<>>) = {}

\* every document is stored under az_<module_name>_meta.json
FileNamesMatch(ms) ==
    \A i \in 1..Len(ms) : ms[i].k = FileName(ms[i].v.module_name)

\* the node a token path leads to
RECURSIVE WalkTree(_, _)
WalkTree(node, path) ==
    IF path = <<>> THEN [found |-> TRUE, node |-> node]
    ELSE IF node.leaf \/ Head(path) \notin DOMAIN node.kids
         THEN [found |-> FALSE, node |-> EmptyTree]
         ELSE WalkTree(node.kids[Head(path)], Tail(path))

\* every declared command path ends at a leaf owned by the declaring module,
\* and every proper prefix of it is an internal node
TreeResolvesAll(ms, tree) ==
    /\ tree.raised = NoError
    /\ \A i \in 1..Len(ms) : \A d \in DeclaredIn(ms[i].v, <<>>) :
          /\ LET w == WalkTree(tree.node, d.path)
             IN  w.found /\ w.node.leaf /\ w.node.owner = ms[i].v.module_name
          /\ \A n \in 0..(Len(d.path) - 1) :
                LET w == WalkTree(tree.node, SubSeq1(d.path, n))
                IN  w.found /\ ~w.node.leaf

---------------------------------------------------------------------------
(* Claims about the command tree and the metadata lookup *)

\* C4, as stated: for every valid metadata set (command paths disjoint across
\* modules, every key the space-joined token path), the built tree leads
\* every declared command path to a leaf owned by the declaring module,
\* through internal nodes only.
C4_AsStated ==
    (command_tree # NotBuilt /\ ValidMetas(metas)) => TreeResolvesAll(metas, command_tree)

\* C4, amended: the same, for valid metadata sets in which no token path is
\* declared both as a command and as a sub-group.
C4_TreeResolvesDeclared ==
    (command_tree # NotBuilt /\ ValidMetas(metas) /\ NoCommandGroupClash(metas))
        => TreeResolvesAll(metas, command_tree)

\* two modules declare commands of two or more tokens under one shared
\* sub-group, and the tree has been built
C4_Witness ==
    /\ command_tree.raised = NoError
    /\ ValidMetas(metas) /\ NoCommandGroupClash(metas)
    /\ \E l1, l2 \in TreeLeaves(command_tree.node, <<>>) :
          /\ l1[2] # l2[2]
          /\ Len(l1[1]) >= 2 /\ Len(l2[1]) >= 2
          /\ l1[1][1] = l2[1][1]

\* the lookup returned the CommandSpec that is declared for its signature
LookupAgrees ==
    /\ lookup.raised = NoError
    /\ \A i \in 1..Len(metas) : \A d \in DeclaredIn(metas[i].v, <<>>) :
          d.path = lookup.signature => lookup.meta = d.spec

\* C8, as stated: for every metadata mapping, load_command_meta called with a
\* signature the tree resolves and the owner the tree records returns the
\* CommandSpec declared for that path, and never fails.
C8_AsStated ==
    lookup # NoLookup => LookupAgrees

\* C8, amended: the same, for valid metadata sets whose documents are stored
\* under the file name az_<module_name>_meta.json.
C8_LookupAgreesWithTree ==
    (lookup # NoLookup /\ ValidMetas(metas) /\ FileNamesMatch(metas)) => LookupAgrees

\* a three-token command was looked up in a valid, well-named metadata set:
\* two sub_groups descents, then the commands key
C8_Witness ==
    /\ lookup # NoLookup
    /\ ValidMetas(metas) /\ FileNamesMatch(metas)
    /\ Len(lookup.signature) = 3
    /\ lookup.raised = NoError

\* C5: a lookup that finds the module document, a sub_groups key or the
\* commands key absent fails with UnknownCommandException, and with no other
\* error kind.
C5_LookupFailsAsUnknownCommand ==
    (lookup # NoLookup /\ lookup.raised # NoError)
        => lookup.raised = UnknownCommandException

---------------------------------------------------------------------------
(* cli_validator.cmd_tree.parse_command: tokenizer and resolver.  The raw  *)
(* command is given as its whitespace-separated tokens; HASH is the        *)
(* comment marker.                                                         *)

AZ == <<"az">>
HASH == <<"#">>

NoCmd == [signature |-> <<>>, module |-> "", parameters |-> <<>>]

\* the tokens before the first comment marker
RECURSIVE strip_comments(_)
strip_comments(tokens) ==
    IF tokens = <<>> \/ Head(tokens) = HASH THEN <<>>
    ELSE <<Head(tokens)>> \o strip_comments(Tail(tokens))

\* extend the signature while the next token is a child of the node; at an
\* owner, the rest of the tokens are the parameters
RECURSIVE resolve(_, _, _)
resolve(node, tokens, n) ==
    IF node.leaf
    THEN [raised |-> NoError,
          cmd |-> [signature |-> SubSeq1(tokens, n), module |-> node.owner,
                   parameters |-> SubSeq(tokens, n + 1, Len(tokens))]]
    ELSE IF n < Len(tokens) /\ tokens[n + 1] \in DOMAIN node.kids
         THEN resolve(node.kids[tokens[n + 1]], tokens, n + 1)
         ELSE [raised |-> UnknownCommandException, cmd |-> NoCmd]

parse_command(tree, command, comments) ==
    LET tokens == IF comments THEN strip_comments(command) ELSE command
    IN  IF tokens = <<>> THEN [raised |-> EmptyCommandException, cmd |-> NoCmd]
        ELSE IF Head(tokens) # AZ THEN [raised |-> NonAzCommandException, cmd |-> NoCmd]
        ELSE resolve(tree, Tail(tokens), 0)

---------------------------------------------------------------------------
(* cli_validator.cmd_meta.parser.CLIParser: the argument parser built from *)
(* a CommandSpec over the shared global parser.  A parsed value is         *)
(* [str |-> value]; an argument that was not supplied is None.             *)

KnownTypes == {"str", "int", "bool"}

create_global_parser ==
    [arguments |-> <<[name |-> "ids", options |-> << <<"-", "-", "ids">> >>],
                     [name |-> "output", options |-> << <<"-", "-", "output">>, <<"-", "o">> >>]>>,
     help |-> {<<"-", "h">>, <<"-", "-", "help">>}]

\* CLIParser(parents=[global parser], add_help=False).load_meta(meta)
load_meta(parent, meta) ==
    IF \E i \in 1..Len(meta.parameters) :
          "type" \in DOMAIN meta.parameters[i] /\ meta.parameters[i].type \notin KnownTypes
    THEN [raised |-> UnknownTypeException, parser |-> None]
    ELSE [raised |-> NoError,
          parser |-> [arguments |-> parent.arguments \o meta.parameters,
                      help |-> parent.help]]

IsFlag(token) == token # <<>> /\ Head(token) = "-"

RECURSIVE parse_from(_, _, _, _)
parse_from(parser, tokens, i, ns) ==
    IF i > Len(tokens) THEN [raised |-> NoError, namespace |-> ns]
    ELSE IF tokens[i] \in parser.help THEN [raised |-> ParserHelpException, namespace |-> None]
    ELSE LET hits == {a \in 1..Len(parser.arguments) :
                         \E o \in 1..Len(parser.arguments[a].options) :
                             parser.arguments[a].options[o] = tokens[i]}
         IN  IF hits = {} \/ i = Len(tokens) \/ IsFlag(tokens[i + 1])
             THEN [raised |-> ParserFailureException, namespace |-> None]
             ELSE LET a == CHOOSE a \in hits : TRUE
                  IN  parse_from(parser, tokens, i + 2,
                          [ns EXCEPT ![parser.arguments[a].name] = [str |-> tokens[i + 1]]])

parse_args(parser, tokens) ==
    parse_from(parser, tokens, 1,
        [n \in {parser.arguments[a].name : a \in 1..Len(parser.arguments)} |-> None])

---------------------------------------------------------------------------
(* CommandMetaValidator.validate_command: the required-argument check *)

\* the loop of the `namespace.ids is not None` branch, stopping at the first
\* missing argument
RECURSIVE missing_with_ids_first(_, _, _)
missing_with_ids_first(params, ns, i) ==
    IF i > Len(params) THEN <<>>
    ELSE IF "id_part" \in DOMAIN params[i] THEN missing_with_ids_first(params, ns, i + 1)
    ELSE IF "required" \in DOMAIN params[i] /\ ns[params[i].name] = None
         THEN <<str_join(<<"/">>, params[i].options)>>
         ELSE missing_with_ids_first(params, ns, i + 1)

\* for param in meta['parameters']:
\*     if 'id_part' in param: continue
\*     else:
\*         if 'required' in param and namespace.__getattribute__(param['name']) is None:
\*             missing_args.append('/'.join(param['options']))
RECURSIVE missing_with_ids(_, _, _)
missing_with_ids(params, ns, i) ==
    IF i > Len(params) THEN <<>>
    ELSE IF "id_part" \in DOMAIN params[i] THEN missing_with_ids(params, ns, i + 1)
    ELSE IF "required" \in DOMAIN params[i] /\ ns[params[i].name] = None
         THEN <<str_join(<<"/">>, params[i].options)>> \o missing_with_ids(params, ns, i + 1)
         ELSE missing_with_ids(params, ns, i + 1)

\* for param in meta['parameters']:
\*     if 'required' in param and namespace.__getattribute__(param['name']) is None:
\*         missing_args.append('/'.join(param['options']))
RECURSIVE missing_without_ids(_, _, _)
missing_without_ids(params, ns, i) ==
    IF i > Len(params) THEN <<>>
    ELSE IF "required" \in DOMAIN params[i] /\ ns[params[i].name] = None
         THEN <<str_join(<<"/">>, params[i].options)>> \o missing_without_ids(params, ns, i + 1)
         ELSE missing_without_ids(params, ns, i + 1)

collect_missing_args(meta, namespace) ==
    IF namespace.ids # None
    THEN missing_with_ids(meta.parameters, namespace, 1)
    ELSE missing_without_ids(meta.parameters, namespace, 1)

\* f"the following arguments are required: {', '.join(missing_args)} "
RequiredMsgHead == "the following arguments are required: "

required_message(missing_args) ==
    <<RequiredMsgHead>> \o str_join(<<", ">>, missing_args) \o <<SP>>

---------------------------------------------------------------------------
(* validate_command, one action per stage *)

StageOrder ==
    <<"parse_command", "load_command_meta", "build_parser", "parse_args", "check_required">>

NoRaise == [kind |-> NoError, msg |-> <<>>]

IdleFrame ==
    [pc |-> "idle", command |-> <<>>, comments |-> TRUE, cmd |-> NoCmd,
     meta |-> None, parser |-> None, namespace |-> None, missing_args |-> <<>>,
     stages |-> <<>>, raised |-> NoRaise, outcomes |-> <<>>, returned |-> None]

\* the stage raises: the exception leaves validate_command
Raise(f, stage, kind, msg) ==
    [f EXCEPT !.pc = "done", !.stages = Append(@, stage),
              !.raised = [kind |-> kind, msg |-> msg],
              !.outcomes = Append(@, "raise")]

\* the stage completes and control moves on to the next one
Advance(f, stage, next) ==
    [f EXCEPT !.pc = next, !.stages = Append(@, stage)]

\* str(e) of the exceptions of exceptions.py whose message is fixed
FixedMsg(kind) ==
    CASE kind = EmptyCommandException -> <<"The input command is empty.">>
      [] kind = NonAzCommandException -> <<"The input command is not an Azure CLI command.">>
      [] kind = ParserHelpException ->
             <<"The user inputs -h/--help. This is not a real exception.">>
      [] OTHER -> <<kind>>

\* validate_command(command, comments) is called
Begin(c, command, comments) ==
    /\ calls[c].pc = "idle"
    /\ calls' = [calls EXCEPT ![c] = [IdleFrame EXCEPT !.pc = "parse_command",
                                          !.command = command, !.comments = comments]]
    /\ UNCHANGED <<metas, command_tree, global_parser, lookup>>
    /\ UNCHANGED loaderVars

\* parse_command with its failure recorded but the call carrying on
ParseCommandStep_continue(c) ==
    /\ calls[c].pc = "parse_command"
    /\ LET f == calls[c]
           r == parse_command(command_tree.node, f.command, f.comments)
       IN  calls' = [calls EXCEPT ![c] =
               IF r.raised # NoError
               THEN [Raise(f, "parse_command", r.raised, FixedMsg(r.raised))
                        EXCEPT !.pc = "load_command_meta"]
               ELSE Advance([f EXCEPT !.cmd = r.cmd], "parse_command", "load_command_meta")]
    /\ UNCHANGED <<metas, command_tree, global_parser, lookup>>
    /\ UNCHANGED loaderVars

\* cmd = parse_command(self.command_tree, command, comments)
ParseCommandStep(c) ==
    /\ calls[c].pc = "parse_command"
    /\ LET f == calls[c]
           r == parse_command(command_tree.node, f.command, f.comments)
       IN  calls' = [calls EXCEPT ![c] =
               IF r.raised # NoError
               THEN Raise(f, "parse_command", r.raised, FixedMsg(r.raised))
               ELSE Advance([f EXCEPT !.cmd = r.cmd], "parse_command", "load_command_meta")]
    /\ UNCHANGED <<metas, command_tree, global_parser, lookup>>
    /\ UNCHANGED loaderVars

\* load_command_meta taking the module document out of self.metas
\* (self.metas.pop(...)) instead of indexing it
LoadCommandMetaStep_consume(c) ==
    /\ calls[c].pc = "load_command_meta"
    /\ LET f == calls[c]
           r == load_command_meta(metas, f.cmd.signature, f.cmd.module)
       IN  /\ calls' = [calls EXCEPT ![c] =
                  IF r.raised # NoError
                  THEN Raise(f, "load_command_meta", r.raised, <<r.raised>>)
                  ELSE Advance([f EXCEPT !.meta = r.meta], "load_command_meta", "build_parser")]
           /\ metas' = LET Other(e) == e.k # FileName(f.cmd.module)
                       IN  SelectSeq(metas, Other)
    /\ UNCHANGED <<command_tree, global_parser, lookup>>
    /\ UNCHANGED loaderVars

\* meta = self.load_command_meta(cmd.signature, cmd.module)
LoadCommandMetaStep(c) ==
    /\ calls[c].pc = "load_command_meta"
    /\ LET f == calls[c]
           r == load_command_meta(metas, f.cmd.signature, f.cmd.module)
       IN  calls' = [calls EXCEPT ![c] =
               IF r.raised # NoError
               THEN Raise(f, "load_command_meta", r.raised, <<r.raised>>)
               ELSE Advance([f EXCEPT !.meta = r.meta], "load_command_meta", "build_parser")]
    /\ UNCHANGED <<metas, command_tree, global_parser, lookup>>
    /\ UNCHANGED loaderVars

\* parser = self.build_parser(meta)
BuildParserStep(c) ==
    /\ calls[c].pc = "build_parser"
    /\ LET f == calls[c]
           r == load_meta(global_parser, f.meta)
       IN  calls' = [calls EXCEPT ![c] =
               IF r.raised # NoError
               THEN Raise(f, "build_parser", r.raised, <<r.raised>>)
               ELSE Advance([f EXCEPT !.parser = r.parser], "build_parser", "parse_args")]
    /\ UNCHANGED <<metas, command_tree, global_parser, lookup>>
    /\ UNCHANGED loaderVars

\* namespace = parser.parse_args(cmd.parameters)
ParseArgsStep(c) ==
    /\ calls[c].pc = "parse_args"
    /\ LET f == calls[c]
           r == parse_args(f.parser, f.cmd.parameters)
       IN  calls' = [calls EXCEPT ![c] =
               IF r.raised # NoError
               THEN Raise(f, "parse_args", r.raised, FixedMsg(r.raised))
               ELSE Advance([f EXCEPT !.namespace = r.namespace], "parse_args", "check_required")]
    /\ UNCHANGED <<metas, command_tree, global_parser, lookup>>
    /\ UNCHANGED loaderVars

\* missing_args = [] ... if len(missing_args) > 0: raise ValidateFailureException(...)
\* and then the end of the function body: no return statement, so None
CheckRequiredStep(c) ==
    /\ calls[c].pc = "check_required"
    /\ LET f == calls[c]
           missing_args == collect_missing_args(f.meta, f.namespace)
           g == [f EXCEPT !.missing_args = missing_args]
       IN  calls' = [calls EXCEPT ![c] =
               IF Len(missing_args) > 0
               THEN Raise(g, "check_required", ValidateFailureException,
                          required_message(missing_args))
               ELSE [g EXCEPT !.pc = "done", !.stages = Append(@, "check_required"),
                              !.returned = None, !.outcomes = Append(@, "return")]]
    /\ UNCHANGED <<metas, command_tree, global_parser, lookup>>
    /\ UNCHANGED loaderVars

\* the call is over and its frame is gone
Finish(c) ==
    /\ calls[c].pc = "done"
    /\ calls' = [calls EXCEPT ![c] = IdleFrame]
    /\ UNCHANGED <<metas, command_tree, global_parser, lookup>>
    /\ UNCHANGED loaderVars

---------------------------------------------------------------------------
(* The metadata and the commands the validator is exercised on: module     *)
(* "ma" declares `a a` with the parameters under test, module "mb"         *)
(* declares `b` without parameters.                                        *)

ParamName(i) == "p" \o ToString(i)

LongFlag(i) == <<"-", "-", ParamName(i)>>

ShortFlag(i) == <<"-", ToString(i)>>

\* a ParameterSpec: `required` absent, true or false; `id_part` absent or set
ParamOf(i, req, idp) ==
    [name |-> ParamName(i), options |-> <<LongFlag(i), ShortFlag(i)>>]
        @@ (IF req = "absent" THEN <<>> ELSE ("required" :> (req = "true")))
        @@ (IF idp THEN ("id_part" :> "name") ELSE <<>>)

ParamMarks == {"absent", "true", "false"} \X BOOLEAN

ParamLists ==
    UNION {{[i \in 1..n |-> ParamOf(i, f[i][1], f[i][2])] : f \in [1..n -> ParamMarks]}
           : n \in 0..MaxParams}

\* one required id_part parameter, then required parameters
PlainParams(n) == [i \in 1..n |-> ParamOf(i, "true", i = 1)]

\* the first parameter declares a type the parser does not know
BadTypeParams(n) ==
    [i \in 1..n |-> IF i = 1 THEN ParamOf(i, "true", FALSE) @@ ("type" :> "bogus")
                    ELSE ParamOf(i, "true", FALSE)]

ValidatorMetas(params, fstyle) ==
    <<[k |-> StoredAs(fstyle, "ma"),
       v |-> [module_name |-> "ma", commands |-> <<>>,
              sub_groups |-> <<[k |-> TokA,
                 v |-> [commands |-> <<[k |-> str_join(<<SP>>, <<TokA, TokA>>),
                                        v |-> [parameters |-> params]]>>,
                        sub_groups |-> <<>>]]>>]],
      [k |-> StoredAs("match", "mb"),
       v |-> [module_name |-> "mb",
              commands |-> <<[k |-> TokB, v |-> [parameters |-> <<>>]]>>,
              sub_groups |-> <<>>]]>>

ValidatorMetaSets ==
    {ValidatorMetas(ps, "match") : ps \in ParamLists}
    \cup {ValidatorMetas(PlainParams(n), "other") : n \in 1..MaxParams}
    \cup {ValidatorMetas(BadTypeParams(n), "match") : n \in 1..MaxParams}

IdsFlag == <<"-", "-", "ids">>
HelpFlag == <<"-", "h">>
BogusFlag == <<"-", "-", "bogus">>
Val == <<"v">>

\* the flag/value tokens for a set of supplied arguments; 0 stands for --ids
RECURSIVE ArgTokens(_, _)
ArgTokens(S, i) ==
    IF i > MaxParams THEN (IF 0 \in S THEN <<IdsFlag, Val>> ELSE <<>>)
    ELSE (IF i \in S THEN <<LongFlag(i), Val>> ELSE <<>>) \o ArgTokens(S, i + 1)

CmdAA == <<AZ, TokA, TokA>>

RawCommands ==
    {<<>>, << <<"ls">>, TokB >>, <<AZ>>, <<AZ, TokB>>, <<AZ, <<"c">>>>, <<AZ, TokA>>,
     <<HASH, AZ, TokB>>}
    \cup {CmdAA \o ArgTokens(S, 1) : S \in SUBSET (0..MaxParams)}
    \cup {CmdAA \o <<HelpFlag>>, CmdAA \o <<BogusFlag, Val>>, CmdAA \o <<IdsFlag>>,
          CmdAA \o <<ShortFlag(1), Val>>,
          CmdAA \o <<LongFlag(1), Val, HASH, HelpFlag>>}

Inputs ==
    {[command |-> r, comments |-> TRUE] : r \in RawCommands}
    \cup {[command |-> r, comments |-> FALSE] :
             r \in {q \in RawCommands : \E i \in 1..Len(q) : q[i] = HASH}}

---------------------------------------------------------------------------
(* The validator specifications *)

\* the state after CommandMetaValidator.__init__
Constructed(ms, ids) ==
    /\ metas = ms
    /\ command_tree = build_command_tree(ms)
    /\ global_parser = create_global_parser
    /\ calls = [c \in ids |-> IdleFrame]
    /\ lookup = NoLookup
    /\ LoaderIdle

Init == \E ms \in ValidatorMetaSets : Constructed(ms, {"c1"})

Next ==
    \/ \E c \in DOMAIN calls : \E in \in Inputs : Begin(c, in.command, in.comments)
    \/ \E c \in DOMAIN calls : ParseCommandStep(c)
    \/ \E c \in DOMAIN calls : LoadCommandMetaStep(c)
    \/ \E c \in DOMAIN calls : BuildParserStep(c)
    \/ \E c \in DOMAIN calls : ParseArgsStep(c)
    \/ \E c \in DOMAIN calls : CheckRequiredStep(c)
    \/ \E c \in DOMAIN calls : Finish(c)

\* one validator, one validate_command call at a time
Spec == Init /\ [][Next]_vars

InitConc ==
    \E ms \in {ValidatorMetas(PlainParams(2), "match"), ValidatorMetas(PlainParams(2), "other"),
               ValidatorMetas(BadTypeParams(2), "match")} :
        Constructed(ms, {"c1", "c2"})

\* one validator, two validate_command calls interleaved stage by stage
SpecConc == InitConc /\ [][Next]_vars

---------------------------------------------------------------------------
(* Claims about validate_command *)

\* the pieces of s between the occurrences of the atom sep
RECURSIVE SplitBy(_, _)
SplitBy(s, sep) ==
    IF \A i \in 1..Len(s) : s[i] # sep THEN <<s>>
    ELSE LET n == CHOOSE i \in 1..Len(s) : s[i] = sep /\ \A j \in 1..(i - 1) : s[j] # sep
         IN  <<SubSeq1(s, n - 1)>> \o SplitBy(SubSeq(s, n + 1, Len(s)), sep)

\* the call went through the required-argument check
Checked(f) == f.pc = "done" /\ Last(f.stages) = "check_required"

\* parameter i of the command was recorded as missing
Recorded(f, i) ==
    \E k \in 1..Len(f.missing_args) :
        SplitBy(f.missing_args[k], "/") = f.meta.parameters[i].options

\* the metadata marks the parameter required: `required` is true
MarkedRequired(param) == "required" \in DOMAIN param /\ param.required

MarkedIdPart(param) == "id_part" \in DOMAIN param

\* C1: a parameter is recorded as missing exactly when it is marked
\* required, its value is None, and either namespace.ids is None or it is not
\* marked id_part; a parameter marked as not required is never recorded.
C1_RequiredPolicy ==
    \A c \in DOMAIN calls :
        Checked(calls[c]) =>
            \A i \in 1..Len(calls[c].meta.parameters) :
                LET param == calls[c].meta.parameters[i]
                    ns == calls[c].namespace
                IN  Recorded(calls[c], i) <=>
                        /\ MarkedRequired(param)
                        /\ ns[param.name] = None
                        /\ (ns.ids = None \/ ~MarkedIdPart(param))

\* what the check records, read as a policy: the `required` key is present,
\* the value is None, and either ids is None or there is no `id_part` key
RecordedByPolicy(param, ns) ==
    /\ "required" \in DOMAIN param
    /\ ns[param.name] = None
    /\ (ns.ids = None \/ "id_part" \notin DOMAIN param)

\* the option spellings of the parameters the policy records, in the order
\* of CommandSpec.parameters
ExpectedEntries(f) ==
    LET Missing(param) == RecordedByPolicy(param, f.namespace)
        ps == SelectSeq(f.meta.parameters, Missing)
    IN  [k \in 1..Len(ps) |-> ps[k].options]

\* the entries of a required-arguments message, each split into its spellings
MessageEntries(msg) ==
    LET entries == SplitBy(SubSeq(msg, 2, Len(msg) - 1), ", ")
    IN  [k \in 1..Len(entries) |-> SplitBy(entries[k], "/")]

\* C2: validate_command fails with ValidateFailureException exactly when the
\* parse succeeded and the missing-argument list is not empty; the message
\* then has one entry per missing parameter, all of them, each entry the
\* parameter's option spellings joined by "/", in the order of
\* CommandSpec.parameters.
C2_MissingMessage ==
    \A c \in DOMAIN calls :
        LET f == calls[c]
        IN  f.pc = "done" =>
              /\ f.raised.kind = ValidateFailureException
                    <=> (f.namespace # None /\ f.missing_args # <<>>)
              /\ f.raised.kind = ValidateFailureException =>
                    /\ f.raised.msg[1] = RequiredMsgHead
                    /\ Last(f.raised.msg) = SP
                    /\ ExpectedEntries(f) # <<>>
                    /\ MessageEntries(f.raised.msg) = ExpectedEntries(f)

\* a call failed with two parameters missing
C2_Witness ==
    \E c \in DOMAIN calls :
        /\ calls[c].pc = "done"
        /\ calls[c].raised.kind = ValidateFailureException
        /\ Len(calls[c].missing_args) >= 2

\* C3: when every stage succeeds and nothing is missing, validate_command
\* returns the parsed Namespace.
C3_ReturnsNamespace ==
    \A c \in DOMAIN calls :
        (calls[c].pc = "done" /\ calls[c].raised.kind = NoError)
            => (calls[c].namespace # None /\ calls[c].returned = calls[c].namespace)

\* the error kinds each stage can end the call with
StageErrors(stage) ==
    CASE stage = "parse_command" ->
             {EmptyCommandException, NonAzCommandException, UnknownCommandException}
      [] stage = "load_command_meta" -> {KeyError}
      [] stage = "build_parser" -> {UnknownTypeException}
      [] stage = "parse_args" -> {ParserFailureException, ParserHelpException}
      [] stage = "check_required" -> {ValidateFailureException}

\* C6: the stages run in the order parse_command, load_command_meta,
\* build_parser, parse_args, check_required, each at most once; a stage that
\* fails ends the call at once with that stage's error; the check is reached
\* only with a parsed namespace; a finished call has exactly one outcome.
C6_StageOrder ==
    \A c \in DOMAIN calls :
        LET f == calls[c]
        IN  /\ IsPrefix(f.stages, StageOrder)
            /\ f.pc \notin {"idle", "done"} =>
                  /\ f.pc = StageOrder[Len(f.stages) + 1]
                  /\ f.raised = NoRaise /\ f.outcomes = <<>>
            /\ f.raised.kind # NoError =>
                  /\ f.pc = "done"
                  /\ f.raised.kind \in StageErrors(Last(f.stages))
            /\ f.pc = "check_required" => f.namespace # None
            /\ f.pc = "done" =>
                  /\ Len(f.outcomes) = 1
                  /\ (f.outcomes[1] = "raise") <=> (f.raised.kind # NoError)
                  /\ f.outcomes[1] = "return" => f.stages = StageOrder

\* a call ended by the parser's failure: four stages ran, the check did not
C6_Witness ==
    \E c \in DOMAIN calls :
        /\ calls[c].pc = "done"
        /\ calls[c].raised.kind = ParserFailureException
        /\ calls[c].stages = SubSeq1(StageOrder, 4)

\* finished calls of the same command have the same outcome
SameOutcome ==
    \A c, d \in DOMAIN calls :
        (/\ calls[c].pc = "done" /\ calls[d].pc = "done"
         /\ calls[c].command = calls[d].command
         /\ calls[c].comments = calls[d].comments)
            => (/\ calls[c].raised = calls[d].raised
                /\ calls[c].returned = calls[d].returned
                /\ calls[c].namespace = calls[d].namespace)

\* C9: no step of any validate_command call changes the command tree, the
\* loaded metadata or the global parser, and, calls being interleaved in any
\* way, a command's validation always has the same outcome.
C9_SharedStateUnchanged ==
    /\ [][/\ metas' = metas
          /\ command_tree' = command_tree
          /\ global_parser' = global_parser]_vars
    /\ []SameOutcome

\* two interleaved calls of the same command, both failed on missing arguments
C9_Witness ==
    /\ calls["c1"].pc = "done" /\ calls["c2"].pc = "done"
    /\ calls["c1"].command = calls["c2"].command
    /\ calls["c1"].raised.kind = ValidateFailureException
    /\ calls["c2"].raised.kind = ValidateFailureException


---------------------------------------------------------------------------
(* Claims about the metadata cache *)

\* the keys of a dict, in order
Keys(d) == [i \in 1..Len(d) |-> d[i].k]

\* the files of a directory's index that load, in index order
LoadableFiles(dir) ==
    LET ok(file_name) == dir.files[file_name].state = "json"
    IN  SelectSeq(dir.index, ok)

\* the files of a directory's index that do not load
FailingFiles(dir) ==
    LET bad(file_name) == dir.files[file_name].state # "json"
    IN  SelectSeq(dir.index, bad)

\* the last operation was a load_metas whose last step was a disk load
EndedWithDiskLoad == last.op = "load_metas" /\ Len(last.ops) \in {1, 3}

\* C7: load_metas_from_disk never raises for a listed file that is missing
\* or not valid JSON: it logs one error per such file, leaves the file out
\* of the mapping it returns, and returns the document of every other
\* listed file; and when fetch_metas finds a listed file missing in the
\* container it logs that and still fetches every other listed file.
C7_PerModuleErrorsTolerated ==
    /\ EndedWithDiskLoad /\ disk[last.version].has_index =>
          LET dir == disk[last.version]
          IN  /\ last.result.raised = NoError
              /\ ~last.result.is_none
              /\ Keys(last.result.metas) = LoadableFiles(dir)
              /\ \A i \in 1..Len(last.result.metas) :
                    last.result.metas[i].v = dir.files[last.result.metas[i].k].doc
              /\ [i \in 1..Len(last.result.log) |-> last.result.log[i].file]
                    = FailingFiles(dir)
    /\ last.op = "load_metas" /\ last.fetched_by = "fetch_metas"
       /\ remote[last.version].exists =>
          LET dir == disk[last.version]
              rdir == remote[last.version]
          IN  /\ last.fetch_raised = NoError
              /\ dir.index = rdir.index
              /\ \A i \in 1..Len(rdir.index) :
                    rdir.files[rdir.index[i]].state # "absent"
                       => dir.files[rdir.index[i]] = rdir.files[rdir.index[i]]
              /\ [i \in 1..Len(last.fetch_log) |-> last.fetch_log[i].file]
                    = SelectSeq(rdir.index, LAMBDA f : rdir.files[f].state = "absent")

Fetched == \E i \in 1..Len(last.ops) : last.ops[i] = "fetch"

\* the part of the protocol that does not depend on how the fetch ends
ProtocolCommon ==
    /\ last.ops[1] = "disk"
    /\ Fetched => last.first.raised = NoError /\ Falsy(last.first)
    /\ Len(SelectSeq(last.ops, LAMBDA o : o = "fetch")) <= 1
    /\ last.first.raised = NoError /\ last.first.metas # <<>> =>
          /\ last.ops = <<"disk">>
          /\ last.raised = NoError
          /\ last.result = last.first
    /\ last.after_clear => Fetched

\* the call ends as its second disk load, made on the cache as fetched, ends
SecondLoadDecides ==
    /\ last.ops = <<"disk", "fetch", "disk">>
    /\ last.result = load_metas_from_disk(disk[last.version])
    /\ last.raised = last.result.raised

\* C10 as stated: a fetch is always followed by exactly one second disk
\* load whose result is returned.
C10_AsStated ==
    last.op = "load_metas" => ProtocolCommon /\ (Fetched => SecondLoadDecides)

\* C10: load_metas first loads from disk; it fetches only when that load
\* gave None or an empty mapping, and at most once; a fetch that returns is
\* followed by exactly one more disk load whose result is returned, a fetch
\* that raises ends the call with its error and without a second load; a
\* first load that gave at least one module is returned without a fetch,
\* whatever was logged for other modules; and the first load_metas of a
\* version after clear attempts a fetch.
C10_CacheThenFetch ==
    last.op = "load_metas" =>
        /\ ProtocolCommon
        /\ Fetched /\ last.fetch_raised = NoError => SecondLoadDecides
        /\ Fetched /\ last.fetch_raised # NoError =>
              /\ last.ops = <<"disk", "fetch">>
              /\ last.raised = last.fetch_raised

\* a load after clear that fetched and returned modules
C10_Witness ==
    /\ last.op = "load_metas"
    /\ last.raised = NoError
    /\ last.after_clear
    /\ last.ops = <<"disk", "fetch", "disk">>
    /\ last.result.metas # <<>>

=============================================================================
